---- MODULE Spec2Model ----
(***************************************************************************)
(* State-machine model of the device-authenticated metering gateway of     *)
(* server/main.py: the Device Registry and Usage Store (two sqlite         *)
(* tables), the admission checks, and the four metered handlers with their *)
(* upstream calls.  A request is handled by one coroutine; between two     *)
(* awaits its code runs without interleaving, so each action below is the  *)
(* code between two suspension points.                                     *)
(***************************************************************************)
EXTENDS Integers, Sequences, FiniteSets, TLC

VARIABLES
    devices,            \* table devices: device_id -> [created_at, last_seen]
    usage,              \* table usage, in insertion (AUTOINCREMENT id) order
    now,                \* the UTC clock, in ticks
    req,                \* the request each handler task is serving
    resp,               \* the answer most recently delivered to a caller
    nreq,               \* number of metered requests received so far
    nresp,              \* number of metered requests answered so far
    reg,                \* the registration each register task is serving
    report,             \* the answer most recently given by GET /v1/usage
    DAILY_TOKEN_LIMIT,  \* configuration, read once at import
    BRAVE_API_KEY       \* configuration: TRUE iff a search credential is set

vars ==
    <<devices, usage, now, req, resp, nreq, nresp, reg, report,
      DAILY_TOKEN_LIMIT, BRAVE_API_KEY>>

\* ---------------------------------------------------------------- bounds
MaxTime == 1          \* the clock stops advancing here
TicksPerDay == 1      \* clock ticks in one UTC calendar day
MaxRequests == 2      \* metered requests received in one behaviour
MaxLines == 2         \* lines read from one upstream event stream

Tasks == {1, 2}       \* handler tasks that may run concurrently
Limits == {0, 2}      \* values DAILY_TOKEN_LIMIT is configured with

\* ---------------------------------------------------------------- strings
\* A python str is a sequence of characters, so that startswith, slicing and
\* strip are computed as python computes them.
Bearer == <<"B", "e", "a", "r", "e", "r", " ">>
Basic == <<"B", "a", "s", "i", "c", " ">>
IdA == <<"a">>
IdB == <<"b">>
IdC == <<"c">>
IdWs == <<" ", "a">>
Empty == << >>

startswith(s, p) == Len(s) >= Len(p) /\ SubSeq(s, 1, Len(p)) = p

RECURSIVE lstrip(_)
lstrip(s) == IF s # << >> /\ Head(s) = " " THEN lstrip(Tail(s)) ELSE s

RECURSIVE rstrip(_)
rstrip(s) ==
    IF s # << >> /\ s[Len(s)] = " " THEN rstrip(SubSeq(s, 1, Len(s) - 1)) ELSE s

\* No stripping at all.
strip_nothing(s) == s

strip(s) == rstrip(lstrip(s))

\* ---------------------------------------------------------------- stores
\* _today(): the UTC calendar day of a clock reading.
_today(t) == t \div TicksPerDay

NoDevices == [d \in {} |-> [created_at |-> 0, last_seen |-> 0]]

\* INSERT INTO devices (device_id, created_at, last_seen) VALUES (?, ?, ?)
insert_device(devs, device_id, t) ==
    [d \in DOMAIN devs \cup {device_id} |->
        IF d = device_id THEN [created_at |-> t, last_seen |-> t] ELSE devs[d]]

\* UPDATE devices SET last_seen = ? WHERE device_id = ?
touch(devs, device_id, t) ==
    [d \in DOMAIN devs |->
        IF d = device_id THEN [devs[d] EXCEPT !.last_seen = t] ELSE devs[d]]

\* The sum without its device condition.
RECURSIVE daily_total_any_device(_, _, _)
daily_total_any_device(ledger, device_id, date) ==
    IF ledger = << >> THEN 0
    ELSE (IF Head(ledger).date = date
             THEN Head(ledger).tokens_in + Head(ledger).tokens_out ELSE 0)
         + daily_total_any_device(Tail(ledger), device_id, date)

\* The sum without its date condition.
RECURSIVE daily_total_any_day(_, _, _)
daily_total_any_day(ledger, device_id, date) ==
    IF ledger = << >> THEN 0
    ELSE (IF Head(ledger).device_id = device_id
             THEN Head(ledger).tokens_in + Head(ledger).tokens_out ELSE 0)
         + daily_total_any_day(Tail(ledger), device_id, date)

\* SELECT COALESCE(SUM(tokens_in + tokens_out), 0) FROM usage
\*   WHERE device_id = ? AND date = ?
RECURSIVE daily_total(_, _, _)
daily_total(ledger, device_id, date) ==
    IF ledger = << >> THEN 0
    ELSE LET row == Head(ledger)
         IN (IF row.device_id = device_id /\ row.date = date
                THEN row.tokens_in + row.tokens_out ELSE 0)
            + daily_total(Tail(ledger), device_id, date)

\* A record cut down to what the cap leaves of the day.
_record_usage_capped(ledger, device_id, endpoint, tokens_in, tokens_out, t) ==
    LET left == DAILY_TOKEN_LIMIT - daily_total(ledger, device_id, _today(t))
        cut_in == IF tokens_in <= left THEN tokens_in ELSE left
        cut_out == IF tokens_out <= left - cut_in THEN tokens_out ELSE left - cut_in
    IN Append(ledger, [device_id |-> device_id, date |-> _today(t),
                       endpoint |-> endpoint,
                       tokens_in |-> cut_in, tokens_out |-> cut_out])

\* One row per device and day: the row of the day is replaced.
_record_usage_upsert(ledger, device_id, endpoint, tokens_in, tokens_out, t) ==
    Append(SelectSeq(ledger, LAMBDA row :
                ~(row.device_id = device_id /\ row.date = _today(t))),
           [device_id |-> device_id, date |-> _today(t), endpoint |-> endpoint,
            tokens_in |-> tokens_in, tokens_out |-> tokens_out])

\* One row per device and day: the tokens are added to the row of the day.
_record_usage_merged(ledger, device_id, endpoint, tokens_in, tokens_out, t) ==
    IF \E i \in 1..Len(ledger) :
          ledger[i].device_id = device_id /\ ledger[i].date = _today(t)
    THEN [i \in 1..Len(ledger) |->
            IF ledger[i].device_id = device_id /\ ledger[i].date = _today(t)
            THEN [ledger[i] EXCEPT !.tokens_in = @ + tokens_in,
                                   !.tokens_out = @ + tokens_out]
            ELSE ledger[i]]
    ELSE Append(ledger, [device_id |-> device_id, date |-> _today(t),
                         endpoint |-> endpoint,
                         tokens_in |-> tokens_in, tokens_out |-> tokens_out])

\* A row dated with the day its request was admitted on (the last_seen the
\* admission left).
_record_usage_admission_day(ledger, device_id, endpoint, tokens_in, tokens_out, t) ==
    Append(ledger, [device_id |-> device_id,
                    date |-> _today(devices[device_id].last_seen),
                    endpoint |-> endpoint,
                    tokens_in |-> tokens_in, tokens_out |-> tokens_out])

\* _record_usage: INSERT INTO usage (...) VALUES (device_id, _today(), ...)
_record_usage(ledger, device_id, endpoint, tokens_in, tokens_out, t) ==
    Append(ledger, [device_id |-> device_id, date |-> _today(t),
                    endpoint |-> endpoint,
                    tokens_in |-> tokens_in, tokens_out |-> tokens_out])

\* dict.get(key, default)
get(d, k, default) == IF k \in DOMAIN d THEN d[k] ELSE default

\* ---------------------------------------------------------------- admission
\* _extract_device_id: the device id of "Authorization: Bearer <device_id>";
\* headers.get("Authorization", "") is the empty string for a missing header.
_extract_device_id(auth) ==
    IF ~startswith(auth, Bearer)
    THEN [err |-> "Unauthenticated", device_id |-> Empty]
    ELSE LET device_id == strip(SubSeq(auth, 8, Len(auth)))
         IN IF device_id = Empty
            THEN [err |-> "Unauthenticated", device_id |-> Empty]
            ELSE [err |-> "", device_id |-> device_id]

\* A cap that admits a total of exactly the limit.
over_limit_strict(total, limit) == total > limit

\* The comparison of _check_device, line 106.
over_limit(total, limit) == total >= limit

\* The quota evaluated before the registry lookup.
_check_device_quota_first(device_id, devs, ledger, t, limit) ==
    IF over_limit(daily_total(ledger, device_id, _today(t)), limit)
    THEN [err |-> "QuotaExceeded", devices |-> devs,
          sql |-> <<"SELECT usage">>]
    ELSE IF device_id \notin DOMAIN devs
         THEN [err |-> "UnknownDevice", devices |-> devs,
               sql |-> <<"SELECT usage", "SELECT devices">>]
         ELSE [err |-> "", devices |-> touch(devs, device_id, t),
               sql |-> <<"SELECT usage", "SELECT devices", "UPDATE devices">>]

\* A per-device lock: a device with a request in flight is not admitted.
_check_device_serialized(device_id, devs, ledger, t, limit) ==
    IF device_id \notin DOMAIN devs
    THEN [err |-> "UnknownDevice", devices |-> devs,
          sql |-> <<"SELECT devices">>]
    ELSE IF \/ over_limit(daily_total(ledger, device_id, _today(t)), limit)
            \/ \E q \in DOMAIN req : req[q].pc # "idle" /\ req[q].dev = device_id
         THEN [err |-> "QuotaExceeded", devices |-> devs,
               sql |-> <<"SELECT devices", "UPDATE devices", "SELECT usage">>]
         ELSE [err |-> "", devices |-> touch(devs, device_id, t),
               sql |-> <<"SELECT devices", "UPDATE devices", "SELECT usage">>]

\* An admission without the registry lookup: any credential is admitted.
_check_device_open(device_id, devs, ledger, t, limit) ==
    IF over_limit(daily_total(ledger, device_id, _today(t)), limit)
    THEN [err |-> "QuotaExceeded", devices |-> devs,
          sql |-> <<"SELECT devices", "UPDATE devices", "SELECT usage">>]
    ELSE [err |-> "", devices |-> touch(devs, device_id, t),
          sql |-> <<"SELECT devices", "UPDATE devices", "SELECT usage">>]

\* _check_device: the statements it executes, in order (sql), its result (err)
\* and the devices table it leaves.  The UPDATE is committed only on the path
\* that reaches conn.commit(); a raise closes the connection without a commit,
\* which rolls the UPDATE back.
_check_device(device_id, devs, ledger, t, limit) ==
    IF device_id \notin DOMAIN devs
    THEN [err |-> "UnknownDevice", devices |-> devs,
          sql |-> <<"SELECT devices">>]
    ELSE LET touched == touch(devs, device_id, t)
             total == daily_total(ledger, device_id, _today(t))
         IN IF over_limit(total, limit)
            THEN [err |-> "QuotaExceeded", devices |-> devs,
                  sql |-> <<"SELECT devices", "UPDATE devices", "SELECT usage">>]
            ELSE [err |-> "", devices |-> touched,
                  sql |-> <<"SELECT devices", "UPDATE devices", "SELECT usage">>]

\* The first two statements of every metered handler:
\*   device_id = _extract_device_id(request); _check_device(device_id)
admit(auth, devs, ledger, t, limit) ==
    LET e == _extract_device_id(auth)
    IN IF e.err # ""
       THEN [err |-> e.err, device_id |-> e.device_id, devices |-> devs,
             sql |-> << >>]
       ELSE LET c == _check_device(e.device_id, devs, ledger, t, limit)
            IN [err |-> c.err, device_id |-> e.device_id,
                devices |-> c.devices, sql |-> c.sql]

\* The status code FastAPI answers an HTTPException of the handlers with.
status_of(err) ==
    CASE err = "Unauthenticated" -> 401
      [] err = "UnknownDevice" -> 401
      [] err = "QuotaExceeded" -> 429
      [] err = "InvalidInput" -> 400
      [] err = "ServiceUnavailable" -> 503
      [] err = "ServerError" -> 500
      [] OTHER -> 200

\* ---------------------------------------------------------------- inputs
Headers ==
    { Empty,                    \* no Authorization header
      Basic \o IdA,             \* another scheme
      Bearer,                   \* nothing after the prefix
      Bearer \o <<" ">>,        \* only whitespace after the prefix
      Bearer \o IdA, Bearer \o IdB, Bearer \o IdC, Bearer \o IdWs }

\* The headers the requests of Spec carry: none, a blank credential, two
\* registrable devices and one that never registers.
CoreHeaders ==
    {Empty, Bearer \o <<" ">>, Bearer \o IdA, Bearer \o IdB, Bearer \o IdC}

RegisterIds == {IdA, IdB}

\* A request body: one that does not parse as JSON, a JSON object with the
\* members d, and a JSON value that is not an object (an array).
NotJson == [json |-> FALSE, dict |-> FALSE, data |-> << >>]
Json(d) == [json |-> TRUE, dict |-> TRUE, data |-> d]
JsonList == [json |-> TRUE, dict |-> FALSE, data |-> << >>]

RegisterBodies ==
    {NotJson, JsonList, Json(<< >>), Json([device_id |-> Empty])}
        \cup {Json([device_id |-> d]) : d \in RegisterIds}

ChatBodies == {NotJson, Json(<< >>), Json([stream |-> TRUE])}

SearchBodies ==
    {Json(<< >>), Json([query |-> <<"q">>]),
     Json([query |-> <<"q">>, count |-> 12])}

UsageDicts ==
    { [prompt_tokens |-> 1, completion_tokens |-> 1],
      [prompt_tokens |-> 3] }

\* What an upstream provider answers a buffered call with.
ChatReplies ==
    {[status |-> 500, json |-> TRUE, data |-> << >>]}
        \cup {[status |-> 200, json |-> TRUE, data |-> [usage |-> u]] :
                  u \in UsageDicts}

\* Upstream answers of other status classes: a 2xx that is not 200, and the
\* error page of a gateway, whose body is not JSON.
ChatStatusReplies ==
    ChatReplies
        \cup {[status |-> 201, json |-> TRUE,
                data |-> [usage |-> [prompt_tokens |-> 1, completion_tokens |-> 1]]],
              [status |-> 502, json |-> FALSE, data |-> << >>]}

Text(n) == [i \in 1..n |-> "x"]

AudioReplies ==
    {[status |-> 500, data |-> << >>], [status |-> 200, data |-> << >>]}
        \cup {[status |-> 200, data |-> [text |-> Text(n)]] : n \in {0, 7, 9}}

SearchReplies ==
    {[status |-> 500, results |-> 0]}
        \cup {[status |-> 200, results |-> n] : n \in {0, 2}}

\* The lines an upstream event stream is made of.
Line(kind, payload, chunk) == [kind |-> kind, payload |-> payload, chunk |-> chunk]
Dict(u) == [type |-> "dict", val |-> u]
StreamLines ==
    { Line("empty", "", << >>),                   \* ""
      Line("done", "", << >>),                    \* "data: [DONE]"
      Line("data", "badjson", << >>),             \* "data: {trunc"
      Line("data", "nonobject", << >>),           \* "data: [1]"
      Line("data", "object", << >>),              \* "data: {"choices": ...}"
      Line("data", "object", [usage |-> [type |-> "str", val |-> << >>]]) }
        \cup {Line("data", "object", [usage |-> Dict(u)]) : u \in UsageDicts}

\* What stream_generator yields: an upstream line followed by a newline, the
\* bare newline of line 220, or the event made of the upstream's error body.
Blank == Line("newline", "", << >>)
ErrorEvent == Line("error_body", "", << >>)

\* ---------------------------------------------------------------- handlers
\* The request a task serves: where its coroutine stands (pc), what it was
\* answered (err, code), the statements its admission executed (sql), the
\* upstream calls it issued (calls), its httpx client and upstream stream
\* connection, the body it was answered with, and for a streamed completion
\* the locals of stream_generator with the lines read (lines) and the chunks
\* yielded to the caller (sent).
Idle ==
    [pc |-> "idle", route |-> "", auth |-> Empty, dev |-> Empty, sql |-> << >>,
     err |-> "", code |-> 0, calls |-> 0, client |-> "none", conn |-> FALSE,
     count |-> 0, tokens_in |-> 0, tokens_out |-> 0,
     lines |-> << >>, sent |-> << >>, body |-> << >>]

\* A request answered right after its admission checks, or admitted (err "").
Answered(route, auth, a) ==
    [Idle EXCEPT !.pc = "done", !.route = route, !.auth = auth,
                 !.dev = a.device_id, !.sql = a.sql,
                 !.err = a.err, !.code = status_of(a.err)]

Fail(s, err, code) == [s EXCEPT !.pc = "done", !.err = err, !.code = code]

\* chat_completions up to its upstream await (lines 182-231).  Returning the
\* StreamingResponse leaves "async with httpx.AsyncClient() as client", which
\* closes the client before stream_generator has run.
chat_completions(auth, a, body) ==
    LET s == Answered("chat/completions", auth, a)
    IN IF a.err # "" THEN s
       ELSE IF ~body.json THEN Fail(s, "ServerError", 500)
       ELSE IF get(body.data, "stream", FALSE)
            THEN [s EXCEPT !.pc = "stream_start", !.client = "closed"]
            ELSE [s EXCEPT !.pc = "upstream", !.client = "open", !.calls = 1]

\* audio_transcriptions up to its upstream await (lines 260-275).
audio_transcriptions(auth, a) ==
    LET s == Answered("audio/transcriptions", auth, a)
    IN IF a.err # "" THEN s
       ELSE [s EXCEPT !.pc = "upstream", !.client = "open", !.calls = 1]

\* No clamp: the first argument as it is.
min_first(a, b) == a

min(a, b) == IF a <= b THEN a ELSE b

\* No floor: the second argument as it is.
max_second(a, b) == b

max(a, b) == IF a >= b THEN a ELSE b

\* A search that goes to the provider without looking at BRAVE_API_KEY.
web_search_keyless(auth, a, body, key) ==
    LET s == Answered("search", auth, a)
    IN IF a.err # "" THEN s
       ELSE IF ~body.json \/ ~body.dict THEN Fail(s, "ServerError", 500)
       ELSE IF get(body.data, "query", Empty) = Empty
            THEN Fail(s, "InvalidInput", 400)
       ELSE [s EXCEPT !.pc = "upstream", !.client = "open", !.calls = 1,
                      !.count = min(get(body.data, "count", 5), 10)]

\* A search that calls the provider whatever the admission said.
web_search_unchecked(auth, a, body, key) ==
    [Answered("search", auth, a) EXCEPT
        !.pc = "upstream", !.client = "open", !.calls = 1,
        !.count = min(get(body.data, "count", 5), 10)]

\* A search that looks for its provider before it looks at the query.
web_search_key_first(auth, a, body, key) ==
    LET s == Answered("search", auth, a)
    IN IF a.err # "" THEN s
       ELSE IF ~body.json \/ ~body.dict THEN Fail(s, "ServerError", 500)
       ELSE IF ~key THEN Fail(s, "ServiceUnavailable", 503)
       ELSE IF get(body.data, "query", Empty) = Empty
            THEN Fail(s, "InvalidInput", 400)
       ELSE [s EXCEPT !.pc = "upstream", !.client = "open", !.calls = 1,
                      !.count = min(get(body.data, "count", 5), 10)]

\* web_search up to its upstream await (lines 293-315).  A body that is not
\* JSON raises out of request.json() (line 296) and a JSON body that is not
\* an object out of body.get (line 297): the caller is answered 500.
web_search(auth, a, body, key) ==
    LET s == Answered("search", auth, a)
    IN IF a.err # "" THEN s
       ELSE IF ~body.json \/ ~body.dict THEN Fail(s, "ServerError", 500)
       ELSE IF get(body.data, "query", Empty) = Empty
            THEN Fail(s, "InvalidInput", 400)
       ELSE IF ~key THEN Fail(s, "ServiceUnavailable", 503)
       ELSE [s EXCEPT !.pc = "upstream", !.client = "open", !.calls = 1,
                      !.count = min(get(body.data, "count", 5), 10)]

\* The usage recorded before the upstream status is looked at.
chat_reply_records_errors(s, re, ledger, t) ==
    LET u == get(re.data, "usage", << >>)
        rec == _record_usage(ledger, s.dev, "chat/completions",
                             get(u, "prompt_tokens", 0),
                             get(u, "completion_tokens", 0), t)
    IN IF re.status # 200
       THEN [req |-> [Fail(s, "UpstreamError", re.status) EXCEPT !.body = re.data],
             usage |-> rec]
       ELSE [req |-> [s EXCEPT !.pc = "done", !.code = 200, !.body = re.data],
             usage |-> rec]

\* chat_completions after the buffered upstream answer (lines 240-254): what
\* the caller is answered and the usage table left behind.  resp.json() is
\* evaluated on both paths (lines 241 and 243) and raises on a body that is
\* not JSON, which leaves the handler as a 500.
chat_reply(s, re, ledger, t) ==
    IF ~re.json
    THEN [req |-> Fail(s, "ServerError", 500), usage |-> ledger]
    ELSE IF re.status # 200
    THEN [req |-> [Fail(s, "UpstreamError", re.status) EXCEPT !.body = re.data],
          usage |-> ledger]
    ELSE LET u == get(re.data, "usage", << >>)
         IN [req |-> [s EXCEPT !.pc = "done", !.code = 200, !.body = re.data],
             usage |-> _record_usage(ledger, s.dev, "chat/completions",
                                     get(u, "prompt_tokens", 0),
                                     get(u, "completion_tokens", 0), t)]

\* A transcription recorded twice.
audio_reply_twice(s, re, ledger, t) ==
    IF re.status # 200
    THEN [req |-> [Fail(s, "UpstreamError", re.status) EXCEPT !.body = re.data],
          usage |-> ledger]
    ELSE LET once == _record_usage(ledger, s.dev, "audio/transcriptions",
                                   max(1, Len(get(re.data, "text", Empty)) \div 4), 0, t)
         IN [req |-> [s EXCEPT !.pc = "done", !.code = 200, !.body = re.data],
             usage |-> _record_usage(once, s.dev, "audio/transcriptions",
                                     max(1, Len(get(re.data, "text", Empty)) \div 4), 0, t)]

\* audio_transcriptions after the upstream answer (lines 277-287).
audio_reply(s, re, ledger, t) ==
    IF re.status # 200
    THEN [req |-> [Fail(s, "UpstreamError", re.status) EXCEPT !.body = re.data],
          usage |-> ledger]
    ELSE LET text == get(re.data, "text", Empty)
             estimated_tokens == max(1, Len(text) \div 4)
         IN [req |-> [s EXCEPT !.pc = "done", !.code = 200, !.body = re.data],
             usage |-> _record_usage(ledger, s.dev, "audio/transcriptions",
                                     estimated_tokens, 0, t)]

\* A search charged by the number of results.
search_reply_per_result(s, re, ledger, t) ==
    IF re.status # 200
    THEN [req |-> Fail(s, "UpstreamError", re.status), usage |-> ledger]
    ELSE [req |-> [s EXCEPT !.pc = "done", !.code = 200,
                            !.body = [results |-> re.results]],
          usage |-> _record_usage(ledger, s.dev, "search", re.results, 0, t)]

\* web_search after the provider's answer (lines 317-330).
search_reply(s, re, ledger, t) ==
    IF re.status # 200
    THEN [req |-> Fail(s, "UpstreamError", re.status), usage |-> ledger]
    ELSE [req |-> [s EXCEPT !.pc = "done", !.code = 200,
                            !.body = [results |-> re.results]],
          usage |-> _record_usage(ledger, s.dev, "search", 1, 0, t)]

\* The handler's "async with httpx.AsyncClient()" is left when it returns
\* or raises.
closed(s) == [s EXCEPT !.client = "closed", !.conn = FALSE]

\* stream_generator from its start to the first line (lines 192-206).
\* client.stream() is called on the client the handler has already closed:
\* httpx raises RuntimeError there ("the client has been closed"), releases
\* before that check sent the request all the same; both are outcomes.
\* A connect error or timeout of the upstream raises out of the same call.
stream_open(s, raises, status) ==
    IF s.client = "closed" /\ raises
    THEN Fail(s, "ServerError", 200)
    ELSE IF status # 200
         THEN [Fail(s, "UpstreamError", 200) EXCEPT
                   !.calls = 1, !.sent = <<ErrorEvent>>]
         ELSE [s EXCEPT !.pc = "streaming", !.calls = 1, !.conn = TRUE]

\* A generator that forwards the lines and captures no usage.
stream_line_no_capture(s, line) ==
    IF line.kind = "data" /\ line.payload = "nonobject"
    THEN [Fail([s EXCEPT !.lines = Append(@, line), !.sent = Append(@, line)],
               "ServerError", 200) EXCEPT !.conn = FALSE]
    ELSE [s EXCEPT !.lines = Append(@, line),
                   !.sent = IF line.kind = "empty" THEN Append(@, Blank)
                            ELSE Append(Append(@, line), Blank)]

\* One iteration of "async for line in resp.aiter_lines()" (lines 207-220).
\* Only JSONDecodeError and KeyError are caught: chunk.get on a payload that is
\* not an object, or usage.get on a usage that is not one, raises
\* AttributeError out of the generator, which leaves "async with client.stream".
stream_line(s, line) ==
    LET read == [s EXCEPT !.lines = Append(@, line)]
        fwd == [read EXCEPT !.sent = Append(@, line)]
        parsed == line.kind = "data" /\ line.payload # "badjson"
        usage_ == IF parsed /\ line.payload = "object"
                  THEN get(line.chunk, "usage", [type |-> "null", val |-> << >>])
                  ELSE [type |-> "null", val |-> << >>]
        truthy == usage_.type = "str" \/ (usage_.type = "dict" /\ DOMAIN usage_.val # {})
    IN IF line.kind = "empty" THEN [read EXCEPT !.sent = Append(@, Blank)]
       ELSE IF ~parsed THEN [fwd EXCEPT !.sent = Append(@, Blank)]
       ELSE IF line.payload = "nonobject" \/ (truthy /\ usage_.type # "dict")
            THEN [Fail(fwd, "ServerError", 200) EXCEPT !.conn = FALSE]
       ELSE IF truthy
            THEN [fwd EXCEPT !.tokens_in = get(usage_.val, "prompt_tokens", 0),
                             !.tokens_out = get(usage_.val, "completion_tokens", 0),
                             !.sent = Append(@, Blank)]
            ELSE [fwd EXCEPT !.sent = Append(@, Blank)]

\* The upstream stream ends: "async with client.stream" is left and line 222
\* records what was captured.
stream_end(s, ledger, t) ==
    [req |-> [s EXCEPT !.pc = "done", !.conn = FALSE],
     usage |-> _record_usage(ledger, s.dev, "chat/completions",
                             s.tokens_in, s.tokens_out, t)]

\* The generator is left by an exception thrown into it: CancelledError or
\* GeneratorExit when the caller has disconnected, an httpx transport error
\* when the upstream connection breaks.  "async with client.stream" releases
\* the connection; line 222 is after it and not in a finally, so it is skipped.
stream_abort(s, err, ledger) ==
    [req |-> [Fail(s, err, 200) EXCEPT !.conn = FALSE], usage |-> ledger]

\* register_device, lines 150-157: a body that does not parse is {}; a body
\* that parses to something other than an object has no get (AttributeError,
\* answered 500); a missing or falsy device_id is answered 400.
register_parse(body) ==
    IF body.json /\ ~body.dict
    THEN [code |-> 500, device_id |-> Empty]
    ELSE LET device_id == IF body.json THEN get(body.data, "device_id", Empty)
                          ELSE Empty
         IN IF device_id = Empty THEN [code |-> 400, device_id |-> Empty]
            ELSE [code |-> 200, device_id |-> device_id]

\* A lookup that never finds the row.
register_select_blind(devs, device_id) == FALSE

\* SELECT * FROM devices WHERE device_id = ?  (lines 162-166)
register_select(devs, device_id) == device_id \in DOMAIN devs

\* A re-registration that counts as a sighting of the device.
register_existing_touch(devs, device_id, t) ==
    [code |-> 200, status |-> "already_registered",
     devices |-> touch(devs, device_id, t)]

\* The answer to a device_id that has a row (lines 166-167): no statement
\* is executed and the connection is closed.
register_existing(devs, device_id, t) ==
    [code |-> 200, status |-> "already_registered", devices |-> devs]

\* INSERT OR REPLACE: a row of the same device_id is overwritten.
register_insert_or_replace(devs, device_id, t) ==
    [code |-> 200, status |-> "registered",
     devices |-> insert_device(devs, device_id, t)]

\* The INSERT and commit of lines 169-174.  device_id is the PRIMARY KEY of
\* the table (line 45): the INSERT of a device_id that has a row by now raises
\* sqlite3.IntegrityError, which leaves the handler as a 500.
register_insert(devs, device_id, t) ==
    IF device_id \in DOMAIN devs
    THEN [code |-> 500, status |-> "", devices |-> devs]
    ELSE [code |-> 200, status |-> "registered",
          devices |-> insert_device(devs, device_id, t)]

\* register_device (lines 150-176) run without interruption.
register_device(body, devs, t) ==
    LET parsed == register_parse(body)
    IN IF parsed.code # 200
       THEN [code |-> parsed.code, status |-> "", devices |-> devs]
       ELSE IF register_select(devs, parsed.device_id)
            THEN register_existing(devs, parsed.device_id, t)
            ELSE register_insert(devs, parsed.device_id, t)

\* The remainder without its floor of 0.
get_usage_unclamped(device_id, ledger, t, t2, limit) ==
    LET total == daily_total(ledger, device_id, _today(t))
    IN [code |-> 200, device_id |-> device_id, date |-> _today(t2),
        tokens_used |-> total, tokens_limit |-> limit,
        tokens_remaining |-> limit - total]

\* The sum taken over every day of the ledger.
get_usage_any_day(device_id, ledger, t, t2, limit) ==
    LET total == daily_total_any_day(ledger, device_id, _today(t))
    IN [code |-> 200, device_id |-> device_id, date |-> _today(t2),
        tokens_used |-> total, tokens_limit |-> limit,
        tokens_remaining |-> max(0, limit - total)]

\* The usage route behind the admission checks of the metered routes: an
\* unknown device is answered 401 and a device over its limit 429.
get_usage_checked(device_id, ledger, t, t2, limit) ==
    LET total == daily_total(ledger, device_id, _today(t))
        code == IF device_id \notin DOMAIN devices THEN 401
                ELSE IF over_limit(total, limit) THEN 429 ELSE 200
    IN [code |-> code, device_id |-> device_id, date |-> _today(t2),
        tokens_used |-> IF code = 200 THEN total ELSE 0,
        tokens_limit |-> limit,
        tokens_remaining |-> IF code = 200 THEN max(0, limit - total) ELSE 0]

\* get_usage (lines 338-357).  _today() is called twice, for the query (t) and
\* for the date of the answer (t2).  The handler raises nowhere: its dict is
\* answered with status 200.
get_usage(device_id, ledger, t, t2, limit) ==
    LET total == daily_total(ledger, device_id, _today(t))
    IN [code |-> 200, device_id |-> device_id, date |-> _today(t2),
        tokens_used |-> total, tokens_limit |-> limit,
        tokens_remaining |-> max(0, limit - total)]

\* A register task: the body it was sent, the device_id and the clock reading
\* of line 161 it holds between its SELECT and its INSERT, and its answer.
NoRegistration ==
    [pc |-> "idle", body |-> NotJson, device_id |-> Empty, t |-> 0,
     code |-> 0, status |-> ""]

NoAnswer ==
    [code |-> 0, device_id |-> Empty, date |-> 0, tokens_used |-> 0,
     tokens_limit |-> 0, tokens_remaining |-> 0]

\* ---------------------------------------------------------------- actions
Init ==
    /\ devices = NoDevices
    /\ usage = << >>
    /\ now = 0
    /\ req = [r \in Tasks |-> Idle]
    /\ resp = Idle
    /\ nreq = 0
    /\ nresp = 0
    /\ reg = [p \in Tasks |-> NoRegistration]
    /\ report = NoAnswer
    /\ DAILY_TOKEN_LIMIT \in Limits
    /\ BRAVE_API_KEY \in BOOLEAN

config == <<DAILY_TOKEN_LIMIT, BRAVE_API_KEY>>
metered == <<req, resp, nreq, nresp>>

\* The clock advances.
Tick ==
    /\ now < MaxTime
    /\ now' = now + 1
    /\ UNCHANGED <<devices, usage, req, resp, nreq, nresp, reg, report, config>>

\* POST /v1/register
Register(body) ==
    /\ devices' = register_device(body, devices, now).devices
    /\ devices' # devices
    /\ UNCHANGED <<usage, now, req, resp, nreq, nresp, reg, report, config>>

\* Task r runs to its next await, where its request stands as s; a request
\* whose handler (or stream) has ended is answered and its task ends.
Run(r, s) ==
    IF s.pc = "done"
    THEN /\ req' = [req EXCEPT ![r] = Idle]
         /\ resp' = s
         /\ nresp' = nresp + 1
    ELSE /\ req' = [req EXCEPT ![r] = s]
         /\ UNCHANGED <<resp, nresp>>

\* A metered request arrives and the first idle task, r, runs its handler to
\* the first await on the upstream (or to its answer).
Receive(r, s, a) ==
    /\ req[r].pc = "idle"
    /\ \A q \in Tasks : q < r => req[q].pc # "idle"
    /\ nreq < MaxRequests
    /\ Run(r, s)
    /\ devices' = a.devices
    /\ nreq' = nreq + 1
    /\ UNCHANGED <<usage, now, reg, report, config>>

\* POST /v1/chat/completions
ChatCompletions(r, auth, body) ==
    LET a == admit(auth, devices, usage, now, DAILY_TOKEN_LIMIT)
    IN Receive(r, chat_completions(auth, a, body), a)

\* POST /v1/audio/transcriptions
AudioTranscriptions(r, auth) ==
    LET a == admit(auth, devices, usage, now, DAILY_TOKEN_LIMIT)
    IN Receive(r, audio_transcriptions(auth, a), a)

\* POST /v1/search
WebSearch(r, auth, body) ==
    LET a == admit(auth, devices, usage, now, DAILY_TOKEN_LIMIT)
    IN Receive(r, web_search(auth, a, body, BRAVE_API_KEY), a)

\* Task r resumes after an await and runs on with the outcome out.
Resume(r, out) ==
    /\ Run(r, IF out.req.pc = "done" THEN closed(out.req) ELSE out.req)
    /\ usage' = out.usage
    /\ UNCHANGED <<devices, now, nreq, reg, report, config>>

\* The upstream answers the buffered call of task r.
UpstreamReply(r) ==
    /\ req[r].pc = "upstream"
    /\ \/ /\ req[r].route = "chat/completions"
          /\ \E re \in ChatReplies : Resume(r, chat_reply(req[r], re, usage, now))
       \/ /\ req[r].route = "audio/transcriptions"
          /\ \E re \in AudioReplies : Resume(r, audio_reply(req[r], re, usage, now))
       \/ /\ req[r].route = "search"
          /\ \E re \in SearchReplies : Resume(r, search_reply(req[r], re, usage, now))

\* The buffered call of task r raises (timeout, connection error): the
\* handler has no except clause and the caller is answered 500.
UpstreamFails(r) ==
    /\ req[r].pc = "upstream"
    /\ Resume(r, [req |-> Fail(req[r], "ServerError", 500), usage |-> usage])

\* The transport starts to iterate stream_generator of task r.
StreamOpen(r, raises, status) ==
    /\ req[r].pc = "stream_start"
    /\ Resume(r, [req |-> stream_open(req[r], raises, status), usage |-> usage])

\* The upstream sends one more line of the event stream of task r.
StreamLine(r, line) ==
    /\ req[r].pc = "streaming"
    /\ Len(req[r].lines) < MaxLines
    /\ Resume(r, [req |-> stream_line(req[r], line), usage |-> usage])

\* The upstream closes the event stream of task r.
StreamEnd(r) ==
    /\ req[r].pc = "streaming"
    /\ Resume(r, stream_end(req[r], usage, now))

\* The caller of task r disconnects, or its upstream connection breaks,
\* before the event stream has ended.
StreamAbort(r, err) ==
    /\ req[r].pc = "streaming"
    /\ Resume(r, stream_abort(req[r], err, usage))

\* Spec follows every route with two concurrent tasks and draws the lines
\* of its event streams from CoreLines; SpecStream follows one chat
\* completion with every kind of line.
CoreLines ==
    { Line("data", "object", [usage |-> Dict([prompt_tokens |-> 1, completion_tokens |-> 1])]),
      Line("data", "nonobject", << >>) }

Next ==
    \/ Tick
    \/ \E body \in RegisterBodies : Register(body)
    \/ \E r \in Tasks, auth \in CoreHeaders, body \in ChatBodies :
          ChatCompletions(r, auth, body)
    \/ \E r \in Tasks, auth \in CoreHeaders : AudioTranscriptions(r, auth)
    \/ \E r \in Tasks, auth \in CoreHeaders, body \in SearchBodies :
          WebSearch(r, auth, body)
    \/ \E r \in Tasks : UpstreamReply(r)
    \/ \E r \in Tasks : UpstreamFails(r)
    \/ \E r \in Tasks, raises \in BOOLEAN, status \in {200, 500} :
          StreamOpen(r, raises, status)
    \/ \E r \in Tasks, line \in CoreLines : StreamLine(r, line)
    \/ \E r \in Tasks : StreamEnd(r)
    \/ \E r \in Tasks, err \in {"Cancelled", "ServerError"} : StreamAbort(r, err)

Spec == Init /\ [][Next]_vars

NextStream ==
    \/ Tick
    \/ \E body \in RegisterBodies : Register(body)
    \/ \E body \in ChatBodies : nreq = 0 /\ ChatCompletions(1, Bearer \o IdA, body)
    \/ UpstreamReply(1)
    \/ \E raises \in BOOLEAN, status \in {200, 500} : StreamOpen(1, raises, status)
    \/ \E line \in StreamLines : StreamLine(1, line)
    \/ StreamEnd(1)
    \/ \E err \in {"Cancelled", "ServerError"} : StreamAbort(1, err)

SpecStream == Init /\ [][NextStream]_vars

\* POST /v1/register, statement by statement.  Every connection to the
\* database file is its own (the server processes of one deployment share
\* the file, in WAL mode), so the statements of another registration can run
\* between the SELECT of one and its INSERT.
\* Register task p parses its body, reads the clock and runs its SELECT.
RegisterSelect(p, body) ==
    /\ reg[p].pc \in {"idle", "done"}
    /\ LET parsed == register_parse(body)
           held == [NoRegistration EXCEPT !.body = body,
                                          !.device_id = parsed.device_id]
           existing == register_existing(devices, parsed.device_id, now)
       IN IF parsed.code # 200
          THEN /\ reg' = [reg EXCEPT ![p] =
                         [held EXCEPT !.pc = "done", !.code = parsed.code]]
               /\ devices' = devices
          ELSE IF register_select(devices, parsed.device_id)
          THEN /\ reg' = [reg EXCEPT ![p] =
                         [held EXCEPT !.pc = "done", !.t = now,
                                      !.code = existing.code,
                                      !.status = existing.status]]
               /\ devices' = existing.devices
          ELSE /\ reg' = [reg EXCEPT ![p] = [held EXCEPT !.pc = "insert", !.t = now]]
               /\ devices' = devices
    /\ UNCHANGED <<usage, now, metered, report, config>>

\* Register task p runs its INSERT and commit, and answers.
RegisterInsert(p) ==
    /\ reg[p].pc = "insert"
    /\ LET i == register_insert(devices, reg[p].device_id, reg[p].t)
       IN /\ devices' = i.devices
          /\ reg' = [reg EXCEPT ![p] = [@ EXCEPT !.pc = "done", !.code = i.code,
                                                 !.status = i.status]]
    /\ UNCHANGED <<usage, now, metered, report, config>>

NextRegister ==
    \/ Tick
    \/ \E p \in Tasks, body \in RegisterBodies : RegisterSelect(p, body)
    \/ \E p \in Tasks : RegisterInsert(p)

SpecRegister == Init /\ [][NextRegister]_vars

\* GET /v1/usage/{device_id}; the clock reads t2 at the second _today().
GetUsage(device_id, t2) ==
    /\ t2 \in {now, now + 1}
    /\ t2 <= MaxTime
    /\ report' = get_usage(device_id, usage, now, t2, DAILY_TOKEN_LIMIT)
    /\ now' = t2
    /\ UNCHANGED <<devices, usage, metered, reg, config>>

UsageIds == {IdA, IdB, IdC}

\* SpecUsage follows buffered chat completions of two devices, one at a
\* time, and the usage route.
NextUsage ==
    \/ Tick
    \/ \E body \in RegisterBodies : Register(body)
    \/ \E auth \in {Bearer \o IdA, Bearer \o IdB} :
          ChatCompletions(1, auth, Json(<< >>))
    \/ UpstreamReply(1)
    \/ \E device_id \in UsageIds, t2 \in 0..MaxTime : GetUsage(device_id, t2)

SpecUsage == Init /\ [][NextUsage]_vars

\* SpecAuth follows the metered routes, one request at a time, with every
\* kind of Authorization header.
NextAuth ==
    \/ Tick
    \/ \E body \in RegisterBodies : Register(body)
    \/ \E auth \in Headers, body \in {NotJson, Json(<< >>)} :
          ChatCompletions(1, auth, body)
    \/ \E auth \in Headers : AudioTranscriptions(1, auth)
    \/ \E auth \in Headers, body \in SearchBodies : WebSearch(1, auth, body)
    \/ UpstreamReply(1)

SpecAuth == Init /\ [][NextAuth]_vars

\* The upstream answers the buffered chat completion of task r with re.
ChatAnswer(r, re) ==
    /\ req[r].pc = "upstream"
    /\ req[r].route = "chat/completions"
    /\ Resume(r, chat_reply(req[r], re, usage, now))

\* SpecChat follows buffered chat completions of one device with upstream
\* answers of every status class.
NextChat ==
    \/ Tick
    \/ \E body \in RegisterBodies : Register(body)
    \/ ChatCompletions(1, Bearer \o IdA, Json(<< >>))
    \/ \E re \in ChatStatusReplies : ChatAnswer(1, re)

SpecChat == Init /\ [][NextChat]_vars

\* Search bodies with the counts a caller may ask for.
SearchCounts == {-1, 0, 3, 10, 11, 12}
SearchCountBodies ==
    {NotJson, JsonList,
     Json(<< >>), Json([query |-> Empty, count |-> 3]), Json([query |-> <<"q">>])}
        \cup {Json([query |-> <<"q">>, count |-> n]) : n \in SearchCounts}

\* SpecSearch follows the searches of one device, one at a time.
NextSearch ==
    \/ Tick
    \/ \E body \in RegisterBodies : Register(body)
    \/ \E auth \in {Bearer \o IdA, Bearer \o IdC}, body \in SearchCountBodies :
          WebSearch(1, auth, body)
    \/ UpstreamReply(1)
    \/ UpstreamFails(1)

SpecSearch == Init /\ [][NextSearch]_vars

\* Device ids a caller may register: plain, with a leading blank, and blank.
DeviceIds == {IdA, IdWs, <<" ">>}

\* SpecDevice follows the life of device rows: registrations and
\* re-registrations, one at a time, and chat completions that carry the
\* registered ids as bearer credentials.
NextDevice ==
    \/ Tick
    \/ \E d \in DeviceIds : RegisterSelect(1, Json([device_id |-> d]))
    \/ RegisterInsert(1)
    \/ \E d \in DeviceIds : ChatCompletions(1, Bearer \o d, Json(<< >>))
    \/ UpstreamReply(1)

SpecDevice == Init /\ [][NextDevice]_vars

\* ---------------------------------------------------------------- properties
Today == now \div TicksPerDay

\* A metered request is received in this step; Received is that request as
\* its handler left it.
Arrives == nreq' = nreq + 1
Received ==
    IF nresp' # nresp THEN resp'
    ELSE req'[CHOOSE r \in Tasks : req[r].pc = "idle" /\ req'[r].pc # "idle"]

\* A request is answered in this step (resp' is the answer); AnswersTask(r)
\* when it is the request task r was serving.
Answers == nresp' = nresp + 1
AnswersTask(r) == req[r].pc # "idle" /\ req'[r].pc = "idle"

\* The usage rows of device d dated day, and the tokens they sum to.
Rows(d, day) ==
    {i \in 1..Len(usage) : usage[i].device_id = d /\ usage[i].date = day}

RECURSIVE SumRows(_)
SumRows(S) ==
    IF S = {} THEN 0
    ELSE LET i == CHOOSE x \in S : TRUE
         IN usage[i].tokens_in + usage[i].tokens_out + SumRows(S \ {i})

Tokens(d, day) == SumRows(Rows(d, day))

\* The header carries no credential: it is missing, of another scheme, or
\* blank after the prefix.
NoCredential(auth) ==
    \/ Len(auth) < Len(Bearer)
    \/ \E i \in 1..Len(Bearer) : auth[i] # Bearer[i]
    \/ \A i \in (Len(Bearer) + 1)..Len(auth) : auth[i] = " "

\* The credential of a header that carries one.
Credential(auth) ==
    SelectSeq(SubSeq(auth, Len(Bearer) + 1, Len(auth)), LAMBDA c : c # " ")

FullCheck == <<"SELECT devices", "UPDATE devices", "SELECT usage">>
Rejections == {"Unauthenticated", "UnknownDevice", "QuotaExceeded"}
Requests == {req[r] : r \in Tasks} \cup {resp}

\* C1: on every metered route the admission checks run in the order
\* Unauthenticated, UnknownDevice, QuotaExceeded: a request without a
\* credential is answered 401 Unauthenticated before any registry lookup, a
\* request of an unregistered device is answered 401 UnknownDevice before any
\* quota evaluation whatever the ledger and the limit are, and a quota
\* rejection comes only after the registry lookup found the device.
C1_AdmissionOrder ==
    [][Arrives =>
        LET s == Received
        IN /\ NoCredential(s.auth) =>
                s.err = "Unauthenticated" /\ s.code = 401 /\ s.sql = << >>
           /\ (~NoCredential(s.auth) /\ Credential(s.auth) \notin DOMAIN devices) =>
                /\ s.err = "UnknownDevice" /\ s.code = 401
                /\ s.sql = <<"SELECT devices">>
           /\ s.err = "QuotaExceeded" =>
                /\ ~NoCredential(s.auth) /\ Credential(s.auth) \in DOMAIN devices
                /\ s.sql = FullCheck]_vars

\* An unregistered device is answered UnknownDevice although the limit of 0
\* would have rejected it, and no usage query was made.
C1_Witness ==
    /\ resp.err = "UnknownDevice" /\ resp.dev = IdC
    /\ resp.route = "search"
    /\ DAILY_TOKEN_LIMIT = 0
    /\ resp.sql = <<"SELECT devices">>

\* C2: an upstream call (buffered, streamed or search provider) exists only
\* for a request that has passed the three admission checks; a request
\* rejected by one of them never has an upstream call, client or connection.
C2_UpstreamOnlyAfterAdmission ==
    \A s \in Requests :
        /\ (s.calls > 0 \/ s.conn \/ s.pc \in {"upstream", "streaming"}) =>
              /\ s.sql = FullCheck
              /\ s.err \notin Rejections
              /\ ~NoCredential(s.auth)
              /\ Credential(s.auth) \in DOMAIN devices
        /\ s.err \in Rejections =>
              s.calls = 0 /\ ~s.conn /\ s.client = "none" /\ s.pc = "done"

\* A search of an admitted device is at the provider while the last answer
\* is a rejection, which made no call.
C2_Witness ==
    /\ \E r \in Tasks : req[r].pc = "upstream" /\ req[r].route = "search"
                         /\ req[r].calls = 1
    /\ resp.err = "UnknownDevice" /\ resp.calls = 0

\* C3: a request of a registered device is rejected with 429 QuotaExceeded
\* exactly when the tokens_in + tokens_out of the device's usage rows of the
\* current UTC day sum to at least DAILY_TOKEN_LIMIT at the admission check.
C3_QuotaIff ==
    [][Arrives =>
        LET s == Received
        IN (~NoCredential(s.auth) /\ Credential(s.auth) \in DOMAIN devices) =>
              /\ (s.err = "QuotaExceeded") <=>
                    (Tokens(Credential(s.auth), Today) >= DAILY_TOKEN_LIMIT)
              /\ (s.err = "QuotaExceeded") <=> (s.code = 429)]_vars

\* A device whose total is exactly the (positive) limit has been rejected.
C3_Witness ==
    /\ resp.err = "QuotaExceeded" /\ resp.code = 429
    /\ DAILY_TOKEN_LIMIT > 0
    /\ Tokens(resp.dev, Today) = DAILY_TOKEN_LIMIT

\* C4: once rows of device D dated day T sum to at least the limit, every
\* request of D received while the day is T is rejected with QuotaExceeded;
\* a request of D received on a later day that has no row of D yet is not:
\* the cap resets by date alone.
C4_ResetsByDate ==
    [][Arrives =>
        LET s == Received
            d == Credential(s.auth)
        IN (~NoCredential(s.auth) /\ d \in DOMAIN devices) =>
              /\ (Rows(d, Today) # {} /\ Tokens(d, Today) >= DAILY_TOKEN_LIMIT) =>
                    s.err = "QuotaExceeded"
              /\ (/\ Rows(d, Today) = {}
                  /\ \E T \in 0..(Today - 1) :
                        Rows(d, T) # {} /\ Tokens(d, T) >= DAILY_TOKEN_LIMIT) =>
                    s.err # "QuotaExceeded" /\ s.code # 429]_vars

\* A device that reached the limit yesterday has a request admitted today.
C4_Witness ==
    \E r \in Tasks :
        /\ req[r].pc = "upstream"
        /\ Rows(req[r].dev, Today) = {}
        /\ Today > 0
        /\ Rows(req[r].dev, Today - 1) # {}
        /\ Tokens(req[r].dev, Today - 1) >= DAILY_TOKEN_LIMIT

\* The tokens a 2xx chat completion body reports.
Reported(body) ==
    LET u == IF "usage" \in DOMAIN body THEN body.usage ELSE << >>
    IN [tokens_in |-> IF "prompt_tokens" \in DOMAIN u THEN u.prompt_tokens ELSE 0,
        tokens_out |-> IF "completion_tokens" \in DOMAIN u
                       THEN u.completion_tokens ELSE 0]

\* C5: the cap is checked at admission only: an admitted request is never
\* answered QuotaExceeded afterwards, and a buffered chat completion that
\* succeeds records the tokens the upstream reported in full, whatever they
\* add up to against the limit.
C5_SoftCeiling ==
    [][\A r \in Tasks : AnswersTask(r) =>
          /\ resp'.err # "QuotaExceeded" /\ resp'.code # 429
          /\ (resp'.err = "" /\ req[r].pc = "upstream"
                /\ req[r].route = "chat/completions") =>
                usage' = Append(usage,
                    [device_id |-> Credential(req[r].auth), date |-> Today,
                     endpoint |-> "chat/completions",
                     tokens_in |-> Reported(resp'.body).tokens_in,
                     tokens_out |-> Reported(resp'.body).tokens_out])]_vars

\* One admitted request has taken its device above the limit and succeeded.
C5_Witness ==
    /\ resp.err = "" /\ resp.code = 200 /\ resp.route = "chat/completions"
    /\ DAILY_TOKEN_LIMIT > 0
    /\ Len(usage) = 1
    /\ Tokens(resp.dev, Today) > DAILY_TOKEN_LIMIT

\* C6: admission is not serialized per device: a request of a registered
\* device whose recorded total is below the limit is admitted also while
\* another request of the same device is in flight and has not recorded yet.
C6_NoSerialization ==
    [][Arrives =>
        LET s == Received
            d == Credential(s.auth)
        IN (/\ ~NoCredential(s.auth) /\ d \in DOMAIN devices
            /\ Tokens(d, Today) < DAILY_TOKEN_LIMIT
            /\ \E q \in Tasks : req[q].pc # "idle" /\ req[q].dev = d) =>
              s.err \notin Rejections /\ s.sql = FullCheck]_vars

\* Two requests of one device were in flight at once and both recorded: the
\* second row is dated the day on which the first alone had reached the limit.
C6_Witness ==
    /\ Len(usage) = 2 /\ now = 0
    /\ usage[1].device_id = usage[2].device_id
    /\ usage[1].tokens_in + usage[1].tokens_out >= DAILY_TOKEN_LIMIT
    /\ usage[2].tokens_in + usage[2].tokens_out > 0

\* C7: a request that fails appends no usage row: the ledger changes only in
\* the step that answers a request with success, so every answer with an
\* auth failure, a quota rejection, a 400 or 503, an upstream error or an
\* exception leaves it as it was, and so does every step before the answer.
C7_FailuresRecordNothing ==
    [][/\ (Answers /\ (resp'.err # "" \/ resp'.code # 200)) => usage' = usage
       /\ ~Answers => usage' = usage]_vars

\* An upstream error has been answered and the ledger is still empty.
C7_Witness ==
    /\ resp.err = "UpstreamError" /\ resp.code = 500 /\ resp.calls = 1
    /\ nresp = 2
    /\ usage = << >>

\* C8: every forwarder operation that succeeds appends exactly one usage row,
\* at the end of the ledger, and the row carries the device of the bearer
\* credential of that request.
C8_OneRecordPerSuccess ==
    [][(Answers /\ resp'.err = "") =>
          /\ Len(usage') = Len(usage) + 1
          /\ SubSeq(usage', 1, Len(usage)) = usage
          /\ usage'[Len(usage')].device_id = Credential(resp'.auth)
          /\ usage'[Len(usage')].endpoint = resp'.route]_vars

\* A request of device a has succeeded and is recorded for a while a request
\* of device b is in flight.
C8_Witness ==
    /\ resp.err = "" /\ resp.dev = IdA
    /\ Len(usage) = 1 /\ usage[1].device_id = IdA
    /\ \E r \in Tasks : req[r].pc \in {"upstream", "streaming"} /\ req[r].dev = IdB

\* The usage of the last line of an event stream that carries a usage object.
RECURSIVE LastUsage(_)
LastUsage(lines) ==
    IF lines = << >> THEN << >>
    ELSE LET l == lines[Len(lines)]
         IN IF /\ l.kind = "data" /\ l.payload = "object"
               /\ "usage" \in DOMAIN l.chunk
               /\ l.chunk.usage.type = "dict"
            THEN l.chunk.usage.val
            ELSE LastUsage(SubSeq(lines, 1, Len(lines) - 1))

\* C9: when the event stream of a streamed chat completion ends, exactly one
\* usage row is appended for the calling device: (p, c) when the last usage
\* object of the stream was (prompt_tokens = p, completion_tokens = c), and
\* (0, 0) when the stream carried no usage object.
C9_StreamUsage ==
    [][(AnswersTask(1) /\ req[1].pc = "streaming" /\ resp'.err = "") =>
          LET u == LastUsage(resp'.lines)
          IN (DOMAIN u = {} \/ DOMAIN u = {"prompt_tokens", "completion_tokens"}) =>
                usage' = Append(usage,
                    [device_id |-> Credential(resp'.auth), date |-> Today,
                     endpoint |-> "chat/completions",
                     tokens_in |-> IF DOMAIN u = {} THEN 0 ELSE u.prompt_tokens,
                     tokens_out |-> IF DOMAIN u = {} THEN 0
                                    ELSE u.completion_tokens])]_vars

\* A stream of a chunk without usage and a final chunk with usage (1, 1) has
\* ended and its row is in the ledger.
C9_Witness ==
    /\ resp.err = "" /\ resp.pc = "done" /\ Len(resp.lines) = 2
    /\ "usage" \notin DOMAIN resp.lines[1].chunk
    /\ resp.lines[2].chunk = [usage |-> Dict([prompt_tokens |-> 1, completion_tokens |-> 1])]
    /\ Len(usage) = 1 /\ usage[1].tokens_in = 1 /\ usage[1].tokens_out = 1

\* C10: when a streamed chat completion ends before its event stream has
\* (the caller disconnects, or the upstream connection breaks), one usage row
\* with what was captured so far is still appended and the upstream
\* connection is released.
C10_AbortStillRecords ==
    [][(AnswersTask(1) /\ req[1].pc = "streaming" /\ req[1].lines # << >>
          /\ resp'.lines = req[1].lines
          /\ resp'.err \in {"Cancelled", "ServerError"}) =>
          /\ ~resp'.conn
          /\ usage' = Append(usage,
                [device_id |-> req[1].dev, date |-> Today,
                 endpoint |-> "chat/completions",
                 tokens_in |-> resp'.tokens_in,
                 tokens_out |-> resp'.tokens_out])]_vars

Days == 0..(MaxTime \div TicksPerDay)

\* C11: for every device and UTC day the daily total starts at 0, never
\* decreases, and is the sum of the rows the successful calls of the device
\* appended on that day: a step that answers a call with success adds the
\* tokens_in + tokens_out of the row it appended to the total of its device
\* and day, and every other step leaves every total as it was.
C11_QuotaMonotone ==
    /\ \A d \in UsageIds, day \in Days : daily_total(usage, d, day) = 0
    /\ [][\A d \in UsageIds, day \in Days :
            LET before == daily_total(usage, d, day)
                after == daily_total(usage', d, day)
                row == usage'[Len(usage')]
            IN /\ after >= before
               /\ before = Tokens(d, day)
               /\ IF Answers /\ resp'.err = ""
                     /\ d = Credential(resp'.auth) /\ day = Today
                  THEN after = before + row.tokens_in + row.tokens_out
                  ELSE after = before]_vars

\* Two calls of one device succeeded on one day and its total is the sum of
\* the two rows.
C11_Witness ==
    /\ nresp = 2 /\ Len(usage) = 2 /\ resp.err = ""
    /\ usage[1].device_id = resp.dev /\ usage[2].device_id = resp.dev
    /\ usage[1].date = Today /\ usage[2].date = Today
    /\ daily_total(usage, resp.dev, Today) =
          usage[1].tokens_in + usage[1].tokens_out
          + usage[2].tokens_in + usage[2].tokens_out
    /\ usage[2].tokens_in + usage[2].tokens_out
          < usage[1].tokens_in + usage[1].tokens_out

\* C12: registration is idempotent.  A register of a non-empty device_id whose
\* INSERT finds no row of that id answers registered and adds one row with
\* created_at = last_seen = the time the handler read; a register of a
\* device_id that has a row answers already_registered and changes nothing;
\* no registration removes or rewrites a row, so the registry holds one row
\* of the id however often it is registered.
C12_IdempotentRegistration ==
    [][/\ \A p \in Tasks, body \in RegisterBodies :
            (/\ RegisterSelect(p, body)
             /\ reg'[p].device_id # Empty
             /\ reg'[p].device_id \in DOMAIN devices) =>
                /\ reg'[p].pc = "done" /\ reg'[p].code = 200
                /\ reg'[p].status = "already_registered"
                /\ devices' = devices
       /\ \A p \in Tasks :
            (RegisterInsert(p) /\ reg[p].device_id \notin DOMAIN devices) =>
                /\ reg'[p].pc = "done" /\ reg'[p].code = 200
                /\ reg'[p].status = "registered"
                /\ DOMAIN devices' = DOMAIN devices \cup {reg[p].device_id}
                /\ devices'[reg[p].device_id] =
                      [created_at |-> reg[p].t, last_seen |-> reg[p].t]
                /\ reg[p].t <= now
       /\ \A d \in DOMAIN devices :
            d \in DOMAIN devices' /\ devices'[d] = devices[d]]_vars

\* Device a was registered by one request and a later request to register it
\* was answered already_registered; its row is the one the first created.
C12_Witness ==
    /\ reg[1].pc = "done" /\ reg[1].status = "registered" /\ reg[1].device_id = IdA
    /\ reg[2].pc = "done" /\ reg[2].status = "already_registered"
    /\ reg[2].device_id = IdA /\ reg[2].t > reg[1].t
    /\ devices[IdA] = [created_at |-> reg[1].t, last_seen |-> reg[1].t]

\* C13: of two registrations of one device_id that run at the same time, at
\* most one answers registered, and once both have answered the registry
\* holds the row of that id, whole, written by one of them: never none, never
\* two, never a half-written one.
C13_ConcurrentRegistration ==
    \A p, q \in Tasks :
        (p # q /\ reg[p].device_id # Empty
              /\ reg[p].device_id = reg[q].device_id) =>
            LET id == reg[p].device_id
            IN /\ ~(reg[p].status = "registered" /\ reg[q].status = "registered")
               /\ reg[p].status = "registered" =>
                     /\ id \in DOMAIN devices
                     /\ devices[id] = [created_at |-> reg[p].t, last_seen |-> reg[p].t]
               /\ (reg[p].pc = "done" /\ reg[q].pc = "done") =>
                     /\ id \in DOMAIN devices
                     /\ devices[id].created_at = devices[id].last_seen
                     /\ Cardinality({d \in DOMAIN devices : d = id}) = 1

\* Both registrations found no row of a; one inserted it and answered
\* registered, the INSERT of the other hit the primary key.
C13_Witness ==
    /\ reg[1].pc = "done" /\ reg[2].pc = "done"
    /\ reg[1].device_id = IdA /\ reg[2].device_id = IdA
    /\ reg[1].status = "registered"
    /\ reg[2].code = 500 /\ reg[2].status = ""
    /\ DOMAIN devices = {IdA}

\* C14: every request that carries the credential of a registered device
\* sets the last_seen of that device to the time of the request, before the
\* quota is evaluated and whatever the request is answered, a QuotaExceeded
\* rejection included.
C14_LastSeenEveryOutcome ==
    [][Arrives =>
        LET s == Received
            d == Credential(s.auth)
        IN (~NoCredential(s.auth) /\ d \in DOMAIN devices) =>
              /\ s.sql = FullCheck
              /\ d \in DOMAIN devices'
              /\ devices'[d].last_seen = now]_vars

\* The rows of the usage table and of the registry that belong to device d.
OwnRows(ledger, d) == SelectSeq(ledger, LAMBDA row : row.device_id = d)
OwnDevices(devs, d) == [x \in DOMAIN devs \cap {d} |-> devs[x]]

\* C15: devices are isolated tenants.  A step changes the registry row and
\* the usage rows of a device only when it is that device's own registration,
\* request or answer; the admission of a request of device A is what the
\* checks compute from A's own row and A's own usage rows alone, and so are
\* A's daily total and the usage reported for A.
C15_Isolation ==
    [][\A A \in UsageIds :
        LET mine == OwnRows(usage, A)
            row == OwnDevices(devices, A)
            alone == admit(Bearer \o A, row, mine, now, DAILY_TOKEN_LIMIT)
        IN /\ (OwnRows(usage', A) # mine \/ OwnDevices(devices', A) # row) =>
                \/ Arrives /\ ~NoCredential(Received.auth)
                           /\ Credential(Received.auth) = A
                \/ Answers /\ Credential(resp'.auth) = A
                \/ /\ ~Arrives /\ ~Answers /\ usage' = usage
                   /\ DOMAIN devices' = DOMAIN devices \cup {A}
                   /\ \A d \in DOMAIN devices : devices'[d] = devices[d]
           /\ (Arrives /\ Received.auth = Bearer \o A) =>
                /\ Received.err \in Rejections \cup {""} => Received.err = alone.err
                /\ Received.err \in Rejections => Received.code = status_of(alone.err)
                /\ OwnDevices(devices', A) = OwnDevices(alone.devices, A)
           /\ daily_total(usage, A, Today) = daily_total(mine, A, Today)
           /\ get_usage(A, usage, now, now, DAILY_TOKEN_LIMIT) =
                 get_usage(A, mine, now, now, DAILY_TOKEN_LIMIT)]_vars

\* Device b has used its limit today and a request of the registered device
\* a, which has used nothing, is admitted and waits for the upstream.
C15_Witness ==
    /\ DAILY_TOKEN_LIMIT > 0
    /\ resp.err = "" /\ resp.dev = IdB
    /\ daily_total(usage, IdB, Today) >= DAILY_TOKEN_LIMIT
    /\ OwnRows(usage, IdA) = << >>
    /\ \E r \in Tasks : req[r].pc = "upstream" /\ req[r].dev = IdA

\* C16: GET /v1/usage/{device_id} answers, for the current UTC day,
\* tokens_used = the sum of the device's usage rows of that day, tokens_limit
\* = DAILY_TOKEN_LIMIT and tokens_remaining = max(0, limit - used); for a
\* device without a row today, registered or not, tokens_used = 0 and
\* tokens_remaining = tokens_limit.
C16_UsageReport ==
    [][\A d \in UsageIds, t2 \in 0..MaxTime :
          GetUsage(d, t2) =>
             LET used == Tokens(d, Today)
             IN /\ report'.device_id = d
                /\ report'.tokens_used = used
                /\ report'.tokens_limit = DAILY_TOKEN_LIMIT
                /\ report'.tokens_remaining =
                      (IF DAILY_TOKEN_LIMIT - used > 0
                       THEN DAILY_TOKEN_LIMIT - used ELSE 0)
                /\ Rows(d, Today) = {} =>
                      /\ report'.tokens_used = 0
                      /\ report'.tokens_remaining = report'.tokens_limit
                /\ devices' = devices /\ usage' = usage]_vars

\* A device that has gone over its limit is reported with nothing remaining.
C16_Witness ==
    /\ report.device_id = IdA
    /\ report.tokens_used > report.tokens_limit /\ report.tokens_limit > 0
    /\ report.tokens_remaining = 0
    /\ report.tokens_used = Tokens(IdA, Today)

\* C17: the usage table is append-only.  Every step leaves it as it was or
\* adds one row at its end, no row is changed or removed, and a row is added
\* only in the step that ends a request whose upstream call has completed.
C17_AppendOnly ==
    [][\/ usage' = usage
       \/ /\ Len(usage') = Len(usage) + 1
          /\ SubSeq(usage', 1, Len(usage)) = usage
          /\ \E r \in Tasks :
                /\ AnswersTask(r)
                /\ req[r].pc \in {"upstream", "streaming"}
                /\ req[r].calls = 1 /\ resp'.calls = 1
                /\ usage'[Len(usage')].device_id = req[r].dev
                /\ usage'[Len(usage')].endpoint = req[r].route]_vars

\* Two rows of one device and one day stand side by side, each as it was
\* appended by its route.
C17_Witness ==
    /\ Len(usage) = 2
    /\ usage[1].device_id = usage[2].device_id
    /\ usage[1].date = usage[2].date
    /\ usage[1].endpoint = "search" /\ usage[2].endpoint = "audio/transcriptions"

\* C18: a register request whose device_id is missing or empty, a body that
\* is not parseable JSON included, is answered 400 InvalidInput and leaves the
\* registry and the usage table as they were.
C18_InvalidRegistration ==
    [][\A p \in Tasks, body \in RegisterBodies :
          (/\ RegisterSelect(p, body)
           /\ \/ ~body.json
              \/ ~body.dict
              \/ "device_id" \notin DOMAIN body.data
              \/ body.data.device_id = Empty) =>
             /\ reg'[p].pc = "done" /\ reg'[p].code = 400
             /\ devices' = devices /\ usage' = usage]_vars

\* C19: a metered request whose Authorization header is missing, is of
\* another scheme, or is blank after the Bearer prefix is answered 401
\* Unauthenticated and changes nothing: no registry statement is executed, no
\* last_seen is touched, no usage row is added and no upstream call is made.
C19_Unauthenticated ==
    [][Arrives =>
        LET s == Received
        IN NoCredential(s.auth) =>
              /\ s.pc = "done" /\ s.err = "Unauthenticated" /\ s.code = 401
              /\ s.sql = << >>
              /\ s.calls = 0 /\ s.client = "none" /\ ~s.conn
              /\ devices' = devices /\ usage' = usage /\ req' = req]_vars

\* The id of a registered device, sent under another scheme, was answered
\* 401 and its row is as the registration left it.
C19_Witness ==
    /\ resp.auth = Basic \o IdA /\ resp.err = "Unauthenticated" /\ resp.code = 401
    /\ IdA \in DOMAIN devices /\ now > 0
    /\ devices[IdA].last_seen = devices[IdA].created_at
    /\ usage = << >>

\* C20: when the upstream call of a streamed chat completion fails before
\* the stream starts, the caller's stream is one event that carries the
\* upstream's error and then ends: no exception leaves stream_generator and
\* no usage row is added.
C20_StreamStartFailure ==
    [][(AnswersTask(1) /\ req[1].pc = "stream_start") =>
          /\ resp'.sent = <<ErrorEvent>>
          /\ resp'.err # "ServerError"
          /\ usage' = usage]_vars

\* The non-empty lines among the lines read from the upstream and among the
\* chunks yielded to the caller.
NonEmpty(chunks) ==
    SelectSeq(chunks, LAMBDA l : l.kind \notin {"empty", "newline"})

\* The generator is ended from outside: the caller has gone or the upstream
\* connection broke, with no line being read in the step.
EndedFromOutside ==
    /\ resp'.err \in {"Cancelled", "ServerError"}
    /\ resp'.lines = req[1].lines

\* C21: the non-empty lines delivered to the caller of a streamed chat
\* completion are the non-empty lines of the upstream event stream, in order,
\* unchanged, none dropped or duplicated: every line is yielded in the step
\* that reads it, before the next is read, and the generator goes on reading
\* until the upstream ends the stream (unless it is ended from outside).
C21_StreamPassThrough ==
    /\ [][(req[1].pc = "streaming" /\ req'[1].pc = "streaming"
                /\ req'[1] # req[1]) =>
             /\ NonEmpty(req'[1].sent) = NonEmpty(req'[1].lines)
             /\ Len(req'[1].lines) = Len(req[1].lines) + 1]_vars
    /\ [][(AnswersTask(1) /\ req[1].pc = "streaming") =>
             /\ NonEmpty(resp'.sent) = NonEmpty(resp'.lines)
             /\ EndedFromOutside \/ (resp'.err = "" /\ resp'.lines = req[1].lines)]_vars

\* The payloads usage extraction cannot use.
Unusable(line) ==
    /\ line.kind = "data"
    /\ \/ line.payload \in {"badjson", "nonobject"}
       \/ /\ line.payload = "object" /\ "usage" \in DOMAIN line.chunk
          /\ line.chunk.usage.type # "dict"

\* C22: usage extraction is best-effort.  A data line whose payload is not
\* valid JSON, is not an object, or has a usage that is not an object is
\* forwarded and skipped for accounting: the stream goes on to its end, where
\* the row is appended, and the captured usage stays as it was.
C22_BestEffortExtraction ==
    [][\A line \in StreamLines :
          (req[1].pc = "streaming" /\ Unusable(line) /\ StreamLine(1, line)) =>
             /\ req'[1].pc = "streaming"
             /\ req'[1].sent = req[1].sent \o <<line, Blank>>
             /\ req'[1].tokens_in = req[1].tokens_in
             /\ req'[1].tokens_out = req[1].tokens_out]_vars

\* C23: a buffered chat completion is decided by the status class of the
\* upstream answer.  On every non-2xx answer the caller gets an error with
\* the same status code and the upstream body, and nothing is recorded; on
\* every 2xx answer one row (usage.prompt_tokens, usage.completion_tokens),
\* 0 for an absent field, is appended and the caller gets the body unchanged.
C23_StatusClass ==
    [][\A re \in ChatStatusReplies :
          ChatAnswer(1, re) =>
             IF re.status \in 200..299
             THEN /\ resp'.err = ""
                  /\ resp'.body = re.data
                  /\ usage' = Append(usage,
                        [device_id |-> req[1].dev, date |-> Today,
                         endpoint |-> "chat/completions",
                         tokens_in |-> Reported(re.data).tokens_in,
                         tokens_out |-> Reported(re.data).tokens_out])
             ELSE /\ resp'.err = "UpstreamError"
                  /\ resp'.code = re.status
                  /\ resp'.body = re.data
                  /\ usage' = usage]_vars

\* The caller's request body asks for a search: it has a non-empty query.
HasQuery(body) == "query" \in DOMAIN body.data /\ body.data.query # Empty

C26_SearchFixedCost ==
    [][(AnswersTask(1) /\ req[1].route = "search" /\ resp'.err = "") =>
          usage' = Append(usage,
              [device_id |-> Credential(resp'.auth), date |-> Today,
               endpoint |-> "search", tokens_in |-> 1, tokens_out |-> 0])]_vars

\* A search that asked for 12 results and got none was charged (1, 0).
C26_Witness ==
    /\ resp.route = "search" /\ resp.err = "" /\ resp.code = 200
    /\ resp.count = 10 /\ resp.body.results = 0
    /\ Len(usage) = 1 /\ usage[1].tokens_in = 1 /\ usage[1].tokens_out = 0

\* C27: the count sent to the search provider is the smaller of the count
\* the caller asked for and 10, and 5 when the caller gave none; it never
\* exceeds 10.
C27_CountClamp ==
    [][\A auth \in Headers, body \in SearchCountBodies :
          (WebSearch(1, auth, body) /\ req'[1].pc = "upstream") =>
             LET asked == IF "count" \in DOMAIN body.data
                          THEN body.data.count ELSE 5
             IN /\ req'[1].calls = 1
                /\ req'[1].count <= 10
                /\ asked <= 10 => req'[1].count = asked
                /\ asked > 10 => req'[1].count = 10]_vars

\* A search is at the provider with the largest count, 10.
C27_Witness ==
    /\ req[1].pc = "upstream" /\ req[1].route = "search"
    /\ req[1].calls = 1 /\ req[1].count = 10
    /\ BRAVE_API_KEY

\* floor(n / 4) with a floor of 1, by its defining inequalities.
Estimate(n) ==
    IF n < 4 THEN 1 ELSE CHOOSE q \in 1..n : 4 * q <= n /\ n < 4 * (q + 1)

\* C25: a transcription that succeeds appends exactly the row (estimate, 0)
\* of its device, where estimate is floor(len(text) / 4) and at least 1: an
\* empty or missing transcript is charged 1 token.
C25_AudioEstimate ==
    [][(AnswersTask(1) /\ req[1].route = "audio/transcriptions" /\ resp'.err = "") =>
          LET n == IF "text" \in DOMAIN resp'.body THEN Len(resp'.body.text) ELSE 0
          IN usage' = Append(usage,
                 [device_id |-> Credential(resp'.auth), date |-> Today,
                  endpoint |-> "audio/transcriptions",
                  tokens_in |-> Estimate(n), tokens_out |-> 0])]_vars

\* An empty transcript has been charged 1 token.
C25_Witness ==
    /\ resp.route = "audio/transcriptions" /\ resp.err = "" /\ resp.code = 200
    /\ "text" \in DOMAIN resp.body /\ resp.body.text = Empty
    /\ Len(usage) = 1 /\ usage[1].tokens_in = 1 /\ usage[1].tokens_out = 0

\* C28: re-registering a device_id that is registered is a no-op: the
\* device's created_at and last_seen, every other row of the registry and the
\* whole usage table stay as they were.
C28_ReregisterNoOp ==
    [][\A d \in DeviceIds :
          (RegisterSelect(1, Json([device_id |-> d])) /\ d \in DOMAIN devices) =>
             /\ devices'[d].created_at = devices[d].created_at
             /\ devices'[d].last_seen = devices[d].last_seen
             /\ devices' = devices
             /\ usage' = usage]_vars

\* A device that was seen after its registration and has usage recorded has
\* registered again; its row still tells the two times apart.
C28_Witness ==
    /\ reg[1].pc = "done" /\ reg[1].status = "already_registered"
    /\ reg[1].device_id = IdA /\ reg[1].t = now
    /\ devices[IdA].created_at < devices[IdA].last_seen
    /\ usage # << >>

\* C29: the device_id of every usage row is the id of a row of the registry.
\* Rows are appended only for requests that were admitted, the registry
\* lookup included, and no step removes a device or changes its created_at.
C29_UsageHasDevice ==
    /\ [](\A i \in 1..Len(usage) : usage[i].device_id \in DOMAIN devices)
    /\ [][/\ \A d \in DOMAIN devices :
                d \in DOMAIN devices' /\ devices'[d].created_at = devices[d].created_at
          /\ usage' # usage =>
                /\ resp'.sql = FullCheck /\ resp'.err = ""
                /\ resp'.dev \in DOMAIN devices
                /\ usage'[Len(usage')].device_id = resp'.dev]_vars

\* A row of device b was appended on day 0 and b, registered then, has been
\* seen again since.
C29_Witness ==
    /\ Len(usage) = 1 /\ usage[1].device_id = IdB /\ usage[1].date = 0
    /\ IdB \in DOMAIN devices
    /\ devices[IdB].created_at = 0 /\ devices[IdB].last_seen > 0

\* C30: every device_id a register call accepted works as a bearer
\* credential: a metered request carrying "Bearer d" for a registered d is
\* never rejected as Unauthenticated or UnknownDevice, for every non-empty d,
\* leading or trailing whitespace included.
C30_RegisteredIdIsCredential ==
    [][\A d \in DeviceIds :
          (ChatCompletions(1, Bearer \o d, Json(<< >>)) /\ d \in DOMAIN devices) =>
             Received.err \notin {"Unauthenticated", "UnknownDevice"}]_vars

\* C31: the usage route and the quota check of the admission agree.  For a
\* registered device, GET /v1/usage answers tokens_remaining = 0 exactly when
\* _check_device, evaluated in the state the sum was read in, rejects with
\* QuotaExceeded; tokens_remaining is never negative; and tokens_used +
\* tokens_remaining = tokens_limit whenever tokens_used <= tokens_limit.
C31_UsageAgreesWithGuard ==
    [][\A d \in UsageIds, t2 \in 0..MaxTime :
          GetUsage(d, t2) =>
             /\ report'.tokens_remaining >= 0
             /\ (report'.tokens_used <= report'.tokens_limit) =>
                   (report'.tokens_used + report'.tokens_remaining
                       = report'.tokens_limit)
             /\ (d \in DOMAIN devices) =>
                   ((report'.tokens_remaining = 0)
                       <=> (_check_device(d, devices, usage, now,
                                          DAILY_TOKEN_LIMIT).err
                               = "QuotaExceeded"))]_vars

\* A registered device that has used exactly its limit is reported with
\* nothing remaining, and a request of it would be rejected.
C31_Witness ==
    /\ report.device_id = IdA /\ IdA \in DOMAIN devices
    /\ report.tokens_limit > 0
    /\ report.tokens_used = report.tokens_limit
    /\ report.tokens_remaining = 0
    /\ report.date = Today /\ report.tokens_used = Tokens(IdA, Today)
    /\ _check_device(IdA, devices, usage, now, DAILY_TOKEN_LIMIT).err
          = "QuotaExceeded"

\* The day task r's request was admitted on.  With one request in flight the
\* UPDATE of its admission (line 94) is the last write to last_seen of its
\* device.
AdmittedOn(r) == _today(devices[req[r].dev].last_seen)

\* C32: a usage row is dated with the UTC day of the moment it is recorded,
\* not with the day of the admission.  A request admitted on day T whose
\* upstream call completes after UTC midnight adds its row to day T + 1, and
\* the total of day T stays as it was.
C32_DatedAtRecording ==
    [][\A r \in Tasks :
          (AnswersTask(r) /\ usage' # usage) =>
             LET d == req[r].dev
                 row == usage'[Len(usage')]
             IN /\ Len(usage') = Len(usage) + 1
                /\ row.device_id = d
                /\ row.date = Today
                /\ \A T \in Days \ {Today} :
                      daily_total(usage', d, T) = daily_total(usage, d, T)
                /\ AdmittedOn(r) < Today =>
                      /\ row.date # AdmittedOn(r)
                      /\ daily_total(usage', d, AdmittedOn(r))
                            = daily_total(usage, d, AdmittedOn(r))
                      /\ daily_total(usage', d, Today)
                            = daily_total(usage, d, Today)
                               + row.tokens_in + row.tokens_out]_vars

\* The only request so far was admitted on day 0 and answered on day 1: its
\* row is dated day 1 and day 0 has none.
C32_Witness ==
    /\ nreq = 1 /\ nresp = 1 /\ resp.code = 200
    /\ resp.dev \in DOMAIN devices
    /\ _today(devices[resp.dev].last_seen) = 0 /\ Today = 1
    /\ Len(usage) = 1 /\ usage[1].device_id = resp.dev
    /\ usage[1].date = 1
    /\ usage[1].tokens_in + usage[1].tokens_out > 0
    /\ Tokens(resp.dev, 0) = 0 /\ Tokens(resp.dev, 1) > 0

\* C33: in every answer of GET /v1/usage the date field names the UTC day
\* over which tokens_used was summed, also when the UTC day changes while
\* the request is handled: the date is the day of the query, and tokens_used
\* is the sum of the device's rows dated with the day the answer names.
C33_DateOfTheSum ==
    [][\A d \in UsageIds, t2 \in 0..MaxTime :
          GetUsage(d, t2) =>
             /\ report'.date = Today
             /\ report'.tokens_used = Tokens(d, report'.date)]_vars

\* C34: GET /v1/usage/{device_id} is a pure read for every id, registered or
\* not.  It creates no device row, updates no last_seen, appends no usage
\* row, and is answered 200 also for an id that is not registered and for a
\* device that has reached its limit.
C34_UsageIsPureRead ==
    [][\A d \in UsageIds, t2 \in 0..MaxTime :
          GetUsage(d, t2) =>
             /\ DOMAIN devices' = DOMAIN devices
             /\ \A x \in DOMAIN devices :
                   /\ devices'[x].last_seen = devices[x].last_seen
                   /\ devices'[x].created_at = devices[x].created_at
             /\ usage' = usage
             /\ metered' = metered
             /\ report'.code = 200 /\ report'.device_id = d
             /\ (d \notin DOMAIN devices) =>
                   /\ d \notin DOMAIN devices'
                   /\ report'.code \notin {401, 404}
             /\ over_limit(Tokens(d, Today), DAILY_TOKEN_LIMIT) =>
                   report'.code # 429]_vars

\* The usage of an id nobody registered has been answered, on a server where
\* a registered device has used up its limit, and the id is still unknown.
C34_Witness ==
    /\ report.code = 200 /\ report.device_id = IdC
    /\ IdC \notin DOMAIN devices
    /\ admit(Bearer \o IdC, devices, usage, now, DAILY_TOKEN_LIMIT).err
          = "UnknownDevice"
    /\ IdA \in DOMAIN devices /\ DAILY_TOKEN_LIMIT > 0
    /\ Tokens(IdA, Today) >= DAILY_TOKEN_LIMIT

\* C35: on /v1/search the failure checks are ordered 401 (no credential,
\* unknown device), 429 (quota), 400 (missing query), 503 (no provider
\* configured).  A request of an admitted device with an empty query is
\* answered 400 also when no provider is configured, and a request answered
\* 400 or 503 has already updated the last_seen of its device.
C35_SearchCheckOrder ==
    [][\A auth \in Headers, body \in SearchBodies :
          WebSearch(1, auth, body) =>
             LET s == Received
                 d == Credential(auth)
                 unauthenticated == NoCredential(auth)
                 unknown == ~unauthenticated /\ d \notin DOMAIN devices
                 admitted == /\ ~unauthenticated /\ ~unknown
                             /\ Tokens(d, Today) < DAILY_TOKEN_LIMIT
             IN /\ unauthenticated =>
                      s.code = 401 /\ s.err = "Unauthenticated"
                /\ unknown => s.code = 401 /\ s.err = "UnknownDevice"
                /\ (~unauthenticated /\ ~unknown /\ ~admitted) =>
                      s.code = 429 /\ s.err = "QuotaExceeded"
                /\ (admitted /\ ~HasQuery(body)) =>
                      /\ s.code = 400 /\ s.err = "InvalidInput"
                      /\ devices'[d].last_seen = now
                /\ (admitted /\ HasQuery(body) /\ ~BRAVE_API_KEY) =>
                      /\ s.code = 503 /\ s.err = "ServiceUnavailable"
                      /\ devices'[d].last_seen = now
                /\ s.code \in {400, 503} =>
                      /\ s.sql = FullCheck /\ s.calls = 0
                      /\ usage' = usage
                      /\ \A x \in DOMAIN devices :
                            devices'[x].created_at = devices[x].created_at]_vars

\* On a server without a search provider, a search without a query was
\* answered 400, and the last_seen of its device is the time of the request,
\* later than the registration.
C35_Witness ==
    /\ ~BRAVE_API_KEY
    /\ resp.route = "search" /\ resp.code = 400 /\ resp.err = "InvalidInput"
    /\ resp.dev \in DOMAIN devices
    /\ devices[resp.dev].last_seen = now
    /\ devices[resp.dev].last_seen > devices[resp.dev].created_at
    /\ nreq = 1 /\ nresp = 1

====
